---- MODULE Spec2Model ----
(***************************************************************************)
(* Model of the go-roomba Open Interface driver: the value encoder (Pack), *)
(* the sensor packet length registry, the command layer (Drive,            *)
(* DirectDrive and the single op code commands) and the synchronous query  *)
(* engine (Sensors, QueryList), all writing through one byte transport.    *)
(***************************************************************************)
EXTENDS Integers, Sequences, FiniteSets, TLC

(***************************************************************************)
(* Bounds of the model.                                                    *)
(***************************************************************************)
\* longest argument list handed to Pack
MaxPackLen == 2
\* longest code list handed to QueryList
MaxCodes == 2
\* reads that return no byte and no error, per call
MaxIdleReads == 1
\* transport reads of one stream reader
MaxReads == 3
\* frames the device sends to one Roomba
MaxFrames == 1
\* longest code list a frame buffer is sized for
MaxAllocCodes == 5

(***************************************************************************)
(* constants.OpCode                                                        *)
(***************************************************************************)
constants_Start == 128
constants_Control == 130
constants_Safe == 131
constants_Full == 132
constants_Spot == 134
constants_Cover == 135
constants_Drive == 137
constants_Sensors == 142
constants_Dock == 143
constants_DriveDirect == 145
constants_SensorStream == 148
constants_QueryList == 149
constants_PauseResumeStream == 150

(***************************************************************************)
(* constants.SENSOR_PACKET_LENGTH: packet id -> payload length in bytes.   *)
(***************************************************************************)
\* the table with the length of SENSOR_DISTANCE (19) off by one
SENSOR_PACKET_LENGTH_Distance3 ==
    [c \in 0..42 |->
        CASE c = 0 -> 26 [] c = 1 -> 10 [] c = 2 -> 6 [] c = 3 -> 10
          [] c = 4 -> 14 [] c = 5 -> 12 [] c = 6 -> 52
          [] c = 19 -> 3
          [] c \in {20, 22, 23, 25, 26, 27, 28, 29, 30, 31, 33, 39, 40, 41, 42} -> 2
          [] OTHER -> 1]

SENSOR_PACKET_LENGTH ==
    (7 :> 1) @@ (8 :> 1) @@ (9 :> 1) @@ (10 :> 1) @@ (11 :> 1) @@ (12 :> 1) @@
    (13 :> 1) @@ (14 :> 1) @@ (15 :> 1) @@ (16 :> 1) @@ (17 :> 1) @@ (18 :> 1) @@
    (19 :> 2) @@ (20 :> 2) @@ (21 :> 1) @@ (22 :> 2) @@ (23 :> 2) @@ (24 :> 1) @@
    (25 :> 2) @@ (26 :> 2) @@ (27 :> 2) @@ (28 :> 2) @@ (29 :> 2) @@ (30 :> 2) @@
    (31 :> 2) @@ (32 :> 1) @@ (33 :> 2) @@ (34 :> 1) @@ (35 :> 1) @@ (36 :> 1) @@
    (37 :> 1) @@ (38 :> 1) @@ (39 :> 2) @@ (40 :> 2) @@ (41 :> 2) @@ (42 :> 2) @@
    (0 :> 26) @@ (1 :> 10) @@ (2 :> 6) @@ (3 :> 10) @@ (4 :> 14) @@ (5 :> 12) @@
    (6 :> 52)

\* bytesToRead, ok := constants.SENSOR_PACKET_LENGTH[packetId]
LookupLength(packetId) ==
    IF packetId \in DOMAIN SENSOR_PACKET_LENGTH
    THEN [length |-> SENSOR_PACKET_LENGTH[packetId], ok |-> TRUE]
    ELSE [length |-> 0, ok |-> FALSE]

(***************************************************************************)
(* Helpers on byte sequences.                                              *)
(***************************************************************************)
Take(s, k) == SubSeq(s, 1, k)

Drop(s, k) == SubSeq(s, k + 1, Len(s))

\* make([]byte, length)
Zeros(length) == [j \in 1..length |-> 0]

(***************************************************************************)
(* Pack: binary.Write(buf, binary.BigEndian, v) for each v, in order.      *)
(* A value is a record [t |-> type name, v |-> integer].                   *)
(***************************************************************************)
Width(t) == IF t \in {"int8", "uint8"} THEN 1 ELSE 2

\* the unsigned reading of v in a field of w bytes (two's complement)
Unsigned(v, w) == IF w = 1 THEN (v + 256) % 256 ELSE (v + 65536) % 65536

\* the same bytes, low byte first
LittleEndian(x) ==
    IF Width(x.t) = 1
    THEN << Unsigned(x.v, 1) >>
    ELSE << Unsigned(x.v, 2) % 256, Unsigned(x.v, 2) \div 256 >>

BigEndian(x) ==
    IF Width(x.t) = 1
    THEN << Unsigned(x.v, 1) >>
    ELSE << Unsigned(x.v, 2) \div 256, Unsigned(x.v, 2) % 256 >>

\* the values packed last to first
RECURSIVE PackReversed(_)
PackReversed(data) ==
    IF data = << >> THEN << >>
    ELSE PackReversed(Tail(data)) \o BigEndian(Head(data))

RECURSIVE Pack(_)
Pack(data) ==
    IF data = << >> THEN << >>
    ELSE BigEndian(Head(data)) \o Pack(Tail(data))

I16(v) == [t |-> "int16", v |-> v]

(***************************************************************************)
(* State.                                                                  *)
(***************************************************************************)
VARIABLES
    pc,           \* position of the caller: "idle", "Sensors", "QueryList"
    call,         \* the call in progress or last finished: [op, args]
    ret,          \* what the last finished call returned: [err, data]
    wire,         \* bytes the transport has accepted since the call began
    wcalls,       \* the Write invocations of the call, each with its transport writes
    rx,           \* bytes the device has sent and the driver has not read
    resp,         \* rx as it was when the call's read loop started
    nreads,       \* transport reads performed by the call
    idleReads,    \* of which returned no byte and no error
    result,       \* local of Sensors / QueryList
    n,            \* local of Sensors / QueryList
    bytesToRead,  \* local of Sensors / QueryList
    i,            \* local of QueryList: index of the entry being read
    lookup,       \* last registry lookup: [packetId, length, ok]
    packed,       \* last Pack application: [data, out]
    alloc,        \* last frame buffer sizing: [packetIds, length]
    rpc,          \* where the ReadStream goroutine is: "none", "start",
                  \* "select", "read", "send" (blocked on out <- result), "done"
    proc,         \* the host process: "running", or how it ended
    buf,          \* local of ReadStream: the frame buffer
    bytesRead,    \* local of ReadStream: bytes of the frame accumulated
    out,          \* the output channel: "none", "open", "closed"
    delivered,    \* what the consumer has received from out
    StreamPaused, \* number of values in the roomba.StreamPaused channel
    sent          \* number of frames the device has sent

vars == << pc, call, ret, wire, wcalls, rx, resp, nreads, idleReads,
           result, n, bytesToRead, i, lookup, packed, alloc,
           rpc, proc, buf, bytesRead, out, delivered, StreamPaused, sent >>

queryVars == << rx, resp, nreads, idleReads, result, n, bytesToRead, i >>

pureVars == << lookup, packed, alloc >>

streamVars == << rpc, proc, buf, bytesRead, out, delivered, StreamPaused, sent >>

NoCall == [op |-> "none", args |-> << >>]

NoRet == [err |-> FALSE, data |-> << >>]

Init ==
    /\ pc = "idle"
    /\ call = NoCall
    /\ ret = NoRet
    /\ wire = << >>
    /\ wcalls = << >>
    /\ rx = << >>
    /\ resp = << >>
    /\ nreads = 0
    /\ idleReads = 0
    /\ result = << >>
    /\ n = 0
    /\ bytesToRead = 0
    /\ i = 0
    /\ lookup = [packetId |-> -1, length |-> 0, ok |-> FALSE]
    /\ packed = [data |-> << >>, out |-> << >>]
    /\ alloc = [packetIds |-> << >>, length |-> 3]
    /\ rpc = "none"
    /\ proc = "running"
    /\ buf = << >>
    /\ bytesRead = 0
    /\ out = "none"
    /\ delivered = << >>
    /\ StreamPaused = 0
    /\ sent = 0

(***************************************************************************)
(* The transport: roomba.S, an io.ReadWriter.  A write of p returns any    *)
(* count 0..len(p) with or without an error; the device receives the       *)
(* first n bytes.                                                          *)
(***************************************************************************)
TransportWrite(p) == { [n |-> k, err |-> e] : k \in 0..Len(p), e \in BOOLEAN }

\* the check without the byte count
OpcodeWriteFailedErrOnly(o) == o.err

\* serial.go:50   if n != 1 || err != nil
OpcodeWriteFailed(o) == o.n # 1 \/ o.err

\* serial.go:55   if n != len(p) || err != nil
PayloadWriteFailed(o, p) == o.n # Len(p) \/ o.err

\* Roomba.Write(opcode, p): the set of outcomes, each with the bytes the
\* transport accepted, the transport writes made and the error returned.
Write(opcode, p) ==
    { [acc |-> Take(<< opcode >>, o1.n),
       log |-> << [buf |-> << opcode >>, n |-> o1.n, err |-> o1.err] >>,
       err |-> TRUE] :
         o1 \in { o \in TransportWrite(<< opcode >>) : OpcodeWriteFailed(o) } }
    \cup
    UNION { { [acc |-> << opcode >> \o Take(p, o2.n),
               log |-> << [buf |-> << opcode >>, n |-> o1.n, err |-> o1.err],
                          [buf |-> p, n |-> o2.n, err |-> o2.err] >>,
               err |-> PayloadWriteFailed(o2, p)] :
                 o2 \in TransportWrite(p) } :
            o1 \in { o \in TransportWrite(<< opcode >>) : ~OpcodeWriteFailed(o) } }

\* the record kept of one Write invocation
WriteRec(opcode, p, o) == [opcode |-> opcode, p |-> p, log |-> o.log, err |-> o.err]

\* Roomba.WriteByte(opcode)
WriteByte(opcode) == Write(opcode, << >>)

\* a call is made on a Roomba that has made none
CanCall == pc = "idle" /\ call = NoCall

\* the finished Roomba and its transport are dropped and new ones made
Reset ==
    /\ pc = "idle"
    /\ call # NoCall
    /\ rpc \in { "none", "done" } \/ proc # "running"
    /\ rpc' = "none"
    /\ proc' = "running"
    /\ buf' = << >>
    /\ bytesRead' = 0
    /\ out' = "none"
    /\ delivered' = << >>
    /\ StreamPaused' = 0
    /\ sent' = 0
    /\ call' = NoCall
    /\ ret' = NoRet
    /\ wire' = << >>
    /\ wcalls' = << >>
    /\ rx' = << >>
    /\ resp' = << >>
    /\ nreads' = 0
    /\ idleReads' = 0
    /\ result' = << >>
    /\ n' = 0
    /\ bytesToRead' = 0
    /\ i' = 0
    /\ UNCHANGED << pc, pureVars >>

(***************************************************************************)
(* Command layer.                                                          *)
(***************************************************************************)
\* a command that ends with one Write: return roomba.Write(opcode, p)
ReturnWrite(opcode, p) ==
    \E o \in Write(opcode, p) :
        /\ wire' = wire \o o.acc
        /\ wcalls' = << WriteRec(opcode, p, o) >>
        /\ ret' = [err |-> o.err, data |-> << >>]

\* a command that fails validation: return fmt.Errorf(...)
ReturnInvalid ==
    /\ wire' = wire
    /\ wcalls' = << >>
    /\ ret' = [err |-> TRUE, data |-> << >>]

Begin(op, args) ==
    /\ CanCall
    /\ call' = [op |-> op, args |-> args]

Start ==
    /\ Begin("Start", << >>)
    /\ ReturnWrite(constants_Start, << >>)
    /\ UNCHANGED << pc, queryVars, pureVars, streamVars >>

\* Passive returns roomba.Start()
Passive ==
    /\ Begin("Passive", << >>)
    /\ ReturnWrite(constants_Start, << >>)
    /\ UNCHANGED << pc, queryVars, pureVars, streamVars >>

Safe ==
    /\ Begin("Safe", << >>)
    /\ ReturnWrite(constants_Safe, << >>)
    /\ UNCHANGED << pc, queryVars, pureVars, streamVars >>

Full ==
    /\ Begin("Full", << >>)
    /\ ReturnWrite(constants_Full, << >>)
    /\ UNCHANGED << pc, queryVars, pureVars, streamVars >>

\* Control calls roomba.Passive(), drops its error, then writes the op code
Control ==
    /\ Begin("Control", << >>)
    /\ \E o1 \in WriteByte(constants_Start) :
         \E o2 \in WriteByte(constants_Control) :
            /\ wire' = wire \o o1.acc \o o2.acc
            /\ wcalls' = << WriteRec(constants_Start, << >>, o1),
                            WriteRec(constants_Control, << >>, o2) >>
            /\ ret' = [err |-> o2.err, data |-> << >>]
    /\ UNCHANGED << pc, queryVars, pureVars, streamVars >>

Clean ==
    /\ Begin("Clean", << >>)
    /\ ReturnWrite(constants_Cover, << >>)
    /\ UNCHANGED << pc, queryVars, pureVars, streamVars >>

Spot ==
    /\ Begin("Spot", << >>)
    /\ ReturnWrite(constants_Spot, << >>)
    /\ UNCHANGED << pc, queryVars, pureVars, streamVars >>

SeekDock ==
    /\ Begin("SeekDock", << >>)
    /\ ReturnWrite(constants_Dock, << >>)
    /\ UNCHANGED << pc, queryVars, pureVars, streamVars >>

\* the check without its upper bound
VelocityOkNoUpper(velocity) == -500 <= velocity

\* part_002:112   -500 <= velocity && velocity <= 500
VelocityOk(velocity) == -500 <= velocity /\ velocity <= 500

\* part_002:115   -2000 <= radius && radius <= 2000
RadiusOk(radius) == -2000 <= radius /\ radius <= 2000

Drive(velocity, radius) ==
    /\ Begin("Drive", << velocity, radius >>)
    /\ IF ~VelocityOk(velocity) THEN ReturnInvalid
       ELSE IF ~RadiusOk(radius) THEN ReturnInvalid
       ELSE ReturnWrite(constants_Drive, Pack(<< I16(velocity), I16(radius) >>))
    /\ UNCHANGED << pc, queryVars, pureVars, streamVars >>

DirectDrive(right, left) ==
    /\ Begin("DirectDrive", << right, left >>)
    /\ IF ~VelocityOk(right) \/ ~VelocityOk(left) THEN ReturnInvalid
       ELSE ReturnWrite(constants_DriveDirect, Pack(<< I16(right), I16(left) >>))
    /\ UNCHANGED << pc, queryVars, pureVars, streamVars >>

\* the int16 arguments tried
Velocities == { -501, -500, 200, 500, 501 }

Radii == { -32768, -2001, -2000, -100, -1, 0, 1, 2000, 2001, 32767 }

NextCmd ==
    \/ Start
    \/ Passive
    \/ Safe
    \/ Full
    \/ Control
    \/ Clean
    \/ Spot
    \/ SeekDock
    \/ \E velocity \in Velocities, radius \in Radii : Drive(velocity, radius)
    \/ \E right \in Velocities, left \in Velocities : DirectDrive(right, left)
    \/ Reset

SpecCmd == Init /\ [][NextCmd]_vars

(***************************************************************************)
(* Synchronous query engine.                                               *)
(***************************************************************************)
\* a read into a view of m bytes returns any count up to m and up to what
\* the device has sent, with or without an error
TransportRead(m) ==
    { o \in { [n |-> k, err |-> e] :
                k \in 0..(IF m < Len(rx) THEN m ELSE Len(rx)), e \in BOOLEAN } :
        (o.n = 0 /\ ~o.err) => idleReads < MaxIdleReads }

\* dst with the first k bytes of src copied to offsets off, off+1, ...
CopyAt(dst, off, src, k) ==
    [j \in 1..Len(dst) |-> IF j > off /\ j <= off + k THEN src[j - off] ELSE dst[j]]

\* byte(x)
Byte(x) == x % 256

\* total payload length of a list of registered codes
RECURSIVE TotalLength(_)
TotalLength(packetIds) ==
    IF packetIds = << >> THEN 0
    ELSE LookupLength(Head(packetIds)).length + TotalLength(Tail(packetIds))

\* what the device sends back for a request of the given codes: one byte
\* per payload byte, all different, starting after base
DeviceResponse(packetIds, base) ==
    [j \in 1..TotalLength(packetIds) |-> base + j]

\* only the first code of the list is looked up
FirstRegistered(packetIds) ==
    packetIds = << >> \/ LookupLength(packetIds[1]).ok

\* part_002:191-196   every code of the list is in the registry
AllRegistered(packetIds) ==
    \A k \in 1..Len(packetIds) : LookupLength(packetIds[k]).ok

\* the request is written with roomba.Write, whose error is dropped; the
\* device answers a request that arrived whole
SendRequest(opcode, p, packetIds, base) ==
    \E o \in Write(opcode, p) :
        /\ wire' = wire \o o.acc
        /\ wcalls' = << WriteRec(opcode, p, o) >>
        /\ rx' = rx \o (IF o.err THEN << >> ELSE DeviceResponse(packetIds, base))
        /\ resp' = rx'

\* return []byte{}, fmt.Errorf("unknown packet id requested")
ReturnUnknown ==
    /\ ReturnInvalid
    /\ pc' = "idle"
    /\ nreads' = 0
    /\ idleReads' = 0
    /\ UNCHANGED << rx, resp, result, n, bytesToRead, i >>

\* the error return without the buffer
ReadFailedNoData(buffer) == [err |-> TRUE, data |-> << >>]

\* part_002:181, 217   return result, fmt.Errorf("failed reading sensors data ...")
ReadFailed(buffer) == [err |-> TRUE, data |-> buffer]

\* Sensors up to its first read
SensorsCall(packetId, base) ==
    /\ Begin("Sensors", << packetId >>)
    /\ IF ~LookupLength(packetId).ok THEN ReturnUnknown
       ELSE /\ SendRequest(constants_Sensors, << packetId >>, << packetId >>, base)
            /\ result' = Zeros(LookupLength(packetId).length)
            /\ bytesToRead' = LookupLength(packetId).length
            /\ n' = 0
            /\ i' = 0
            /\ nreads' = 0
            /\ idleReads' = 0
            /\ ret' = NoRet
            /\ pc' = "Sensors"
    /\ UNCHANGED << pureVars, streamVars >>

\* one iteration of the read loop of Sensors, and the return that follows
\* it when the read fails or the loop condition no longer holds
SensorsRead ==
    /\ pc = "Sensors"
    /\ \E r \in TransportRead(Len(result) - n) :
        /\ result' = CopyAt(result, n, rx, r.n)
        /\ rx' = Drop(rx, r.n)
        /\ bytesToRead' = Byte(bytesToRead - Byte(n))
        /\ n' = r.n
        /\ nreads' = nreads + 1
        /\ idleReads' = IF r.n = 0 /\ ~r.err THEN idleReads + 1 ELSE idleReads
        /\ IF r.err
           THEN pc' = "idle" /\ ret' = ReadFailed(result')
           ELSE IF Byte(n') < bytesToRead'
           THEN pc' = "Sensors" /\ ret' = ret
           ELSE pc' = "idle" /\ ret' = [err |-> FALSE, data |-> result']
    /\ UNCHANGED << call, wire, wcalls, resp, i, pureVars, streamVars >>

\* the request payload of QueryList and Stream: count byte, then the codes
ListPayload(packetIds) == << Byte(Len(packetIds)) >> \o packetIds

\* QueryList up to its first read
QueryListCall(packetIds, base) ==
    /\ Begin("QueryList", << packetIds >>)
    /\ IF ~AllRegistered(packetIds) THEN ReturnUnknown
       ELSE /\ SendRequest(constants_QueryList, ListPayload(packetIds), packetIds, base)
            /\ nreads' = 0
            /\ idleReads' = 0
            /\ n' = 0
            /\ IF packetIds = << >>
               THEN /\ result' = << >>
                    /\ bytesToRead' = 0
                    /\ i' = 0
                    /\ ret' = [err |-> FALSE, data |-> << >>]
                    /\ pc' = "idle"
               ELSE /\ result' = [k \in 1..Len(packetIds) |->
                                    IF k = 1 THEN Zeros(LookupLength(packetIds[1]).length)
                                    ELSE << >>]
                    /\ bytesToRead' = LookupLength(packetIds[1]).length
                    /\ i' = 1
                    /\ ret' = NoRet
                    /\ pc' = "QueryList"
    /\ UNCHANGED << pureVars, streamVars >>

\* one iteration of the inner read loop of QueryList for entry i, and what
\* follows it: the error return, the next entry, or the final return
QueryListRead ==
    /\ pc = "QueryList"
    /\ \E r \in TransportRead(Len(result[i]) - n) :
        LET packetIds == call.args[1]
            filled == [result EXCEPT ![i] = CopyAt(result[i], n, rx, r.n)]
            left == Byte(bytesToRead - Byte(n))
        IN
        /\ rx' = Drop(rx, r.n)
        /\ nreads' = nreads + 1
        /\ idleReads' = IF r.n = 0 /\ ~r.err THEN idleReads + 1 ELSE idleReads
        /\ IF r.err
           THEN /\ result' = filled /\ n' = r.n /\ bytesToRead' = left /\ i' = i
                /\ pc' = "idle" /\ ret' = ReadFailed(filled)
           ELSE IF Byte(r.n) < left
           THEN /\ result' = filled /\ n' = r.n /\ bytesToRead' = left /\ i' = i
                /\ pc' = "QueryList" /\ ret' = ret
           ELSE IF i < Len(packetIds)
           THEN /\ result' = [filled EXCEPT
                                ![i + 1] = Zeros(LookupLength(packetIds[i + 1]).length)]
                /\ bytesToRead' = LookupLength(packetIds[i + 1]).length
                /\ n' = 0
                /\ i' = i + 1
                /\ pc' = "QueryList" /\ ret' = ret
           ELSE /\ result' = filled /\ n' = r.n /\ bytesToRead' = left /\ i' = i
                /\ pc' = "idle" /\ ret' = [err |-> FALSE, data |-> filled]
    /\ UNCHANGED << call, wire, wcalls, resp, pureVars, streamVars >>

\* the codes tried: one byte, two bytes, a group packet of six, unregistered
QueryCodes == { 7, 19, 2, 99 }

\* the code lists tried: every list of one code, and the longer lists
\* without the group packet
ListCodes == { 7, 19, 99 }

QueryLists ==
    [1..1 -> QueryCodes] \cup UNION { [1..k -> ListCodes] : k \in 0..MaxCodes }

\* first payload bytes the device answers with
ResponseBases == { 16, 160 }

NextQuery ==
    \/ \E packetId \in QueryCodes, base \in ResponseBases : SensorsCall(packetId, base)
    \/ SensorsRead
    \/ \E packetIds \in QueryLists, base \in ResponseBases : QueryListCall(packetIds, base)
    \/ QueryListRead
    \/ Reset

SpecQuery == Init /\ [][NextQuery]_vars

(***************************************************************************)
(* Streaming: the pure parts of ReadStream.                                *)
(***************************************************************************)
\* part_002:231-239   var dataLength byte; dataLength += packetLength
RECURSIVE DataLength(_)
DataLength(packetIds) ==
    IF packetIds = << >> THEN 0
    ELSE Byte(DataLength(SubSeq(packetIds, 1, Len(packetIds) - 1))
              + LookupLength(packetIds[Len(packetIds)]).length)

\* part_002:242   len(buf) of make([]byte, dataLength+byte(len(packetIds))+3)
BufLength(packetIds) == Byte(DataLength(packetIds) + Byte(Len(packetIds)) + 3)

\* part_002:273, 280   byte(len(buf) - 3)
ExpectedLength(b) == Byte(Len(b) - 3)

\* sum of a byte sequence
RECURSIVE SumBytes(_)
SumBytes(b) == IF b = << >> THEN 0 ELSE Head(b) + SumBytes(Tail(b))

\* the three ways the decoding of a frame ends
Fatal == [kind |-> "fatal", result |-> << >>]

Panic == [kind |-> "panic", result |-> << >>]

Decoded(res) == [kind |-> "deliver", result |-> res]

\* part_002:311   if sum != 0 { log.Fatalf(...) }
ChecksumOk(sum) == sum = 0

\* part_002:282-313   the entry loop from the identifier at position pos
\* (1-based) on, with i entries decoded into res and sum the running sum;
\* then the checksum byte
RECURSIVE DecodeEntries(_, _, _, _, _)
DecodeEntries(b, pos, idx, sum, res) ==
    IF pos > Len(b)
    THEN Fatal                                  \* "missing checksum"
    ELSE LET packetId == b[pos]
             length == LookupLength(packetId).length
             data == SubSeq(b, pos + 1, pos + length)
             sum2 == Byte(sum + packetId + SumBytes(data))
             next == pos + 1 + length
         IN IF idx >= Len(res) THEN Panic       \* result[i]: index out of range
            ELSE IF Len(b) - pos < length
            THEN Fatal                          \* "error reading packet data"
            ELSE IF Len(b) - (next - 1) = 1
            THEN IF ChecksumOk(Byte(sum2 + b[next]))
                 THEN Decoded([res EXCEPT ![idx + 1] = data])
                 ELSE Fatal                     \* "computed checksum didn't match"
            ELSE DecodeEntries(b, next, idx + 1, sum2, [res EXCEPT ![idx + 1] = data])

\* part_002:267-313   what ReadStream does with a fully accumulated buffer
Decode(b, packetIds) ==
    IF Len(b) < 1 \/ b[1] # 19 THEN Fatal
    ELSE IF Len(b) < 2 \/ b[2] # ExpectedLength(b) THEN Fatal
    ELSE DecodeEntries(b, 3, 0, ExpectedLength(b),
                       [k \in 1..Len(packetIds) |-> << >>])

(***************************************************************************)
(* Streaming: the device, Stream, the ReadStream goroutine, PauseStream    *)
(* and the consumer of the output channel.                                 *)
(***************************************************************************)
\* part_001: the entries of a stream frame, identifier then payload; the
\* payload bytes are all different, counted up from base
RECURSIVE FrameEntries(_, _)
FrameEntries(packetIds, base) ==
    IF packetIds = << >> THEN << >>
    ELSE LET length == LookupLength(Head(packetIds)).length
         IN << Head(packetIds) >> \o [j \in 1..length |-> base + j]
            \o FrameEntries(Tail(packetIds), base + length)

\* part_001: checksum -= b over the bytes from the length byte on
WithChecksum(body) == body \o << Byte(256 - Byte(SumBytes(body))) >>

\* part_001: the frame the device sends for a list of codes
ValidFrame(packetIds, base) ==
    LET entries == FrameEntries(packetIds, base)
    IN << 19 >> \o WithChecksum(<< Byte(Len(entries)) >> \o entries)

\* line noise: the lowest bit of byte k flipped
FlipBit(b, k) == [b EXCEPT ![k] = IF @ % 2 = 0 THEN @ + 1 ELSE @ - 1]

\* lists a device may be streaming instead of the requested one
OtherLists == { << 8 >>, << 19, 7 >> }

\* what may arrive as one frame of a session: the frame of the list, the
\* frame with one bit flipped, and the frame of another list of the same
\* frame length
DeviceFrames(packetIds, base) ==
    LET f == ValidFrame(packetIds, base)
    IN { f }
       \cup { FlipBit(f, k) : k \in 1..Len(f) }
       \cup { ValidFrame(o, base) :
                o \in { l \in OtherLists : Len(ValidFrame(l, base)) = Len(f) } }

\* a read of the stream reader: the error is io.EOF or another one
StreamRead(m) ==
    UNION { { [n |-> o.n, err |-> e] :
                e \in IF o.err THEN { "EOF", "other" } ELSE { "nil" } } :
            o \in TransportRead(m) }

\* the write check always passing
StreamWriteFailedNever(o) == FALSE

\* part_002:332   if err != nil { return nil, err }
StreamWriteFailed(o) == o.err

\* the channel left as it is
CloseSkipped(ch) == ch

\* part_002:250   close(out)
Close(ch) == "closed"

\* Stream is called on a Roomba that has made no call, or whose last stream
\* reader is not running and has left nothing unread in the transport
CanStream ==
    /\ pc = "idle"
    /\ \/ call = NoCall
       \/ call.op = "Stream" /\ rpc \in { "none", "done" } /\ rx = << >>

\* the first step of the reader goes past its select
LoopAtRead == "read"

\* part_002:244-246   for { Loop: select { ... } }
Loop == "select"

\* part_002:325-339   Stream: the request, then a new channel and a new
\* goroutine
StreamCall(packetIds) ==
    /\ CanStream
    /\ proc = "running"
    /\ call' = [op |-> "Stream", args |-> << packetIds >>]
    /\ \E o \in Write(constants_SensorStream, ListPayload(packetIds)) :
        /\ wire' = o.acc
        /\ wcalls' = << WriteRec(constants_SensorStream, ListPayload(packetIds), o) >>
        /\ IF StreamWriteFailed(o)
           THEN ret' = [err |-> TRUE, data |-> << >>] /\ out' = "none" /\ rpc' = "none"
           ELSE ret' = [err |-> FALSE, data |-> << >>] /\ out' = "open" /\ rpc' = "start"
    /\ nreads' = 0
    /\ idleReads' = 0
    /\ result' = << >>
    /\ buf' = << >>
    /\ bytesRead' = 0
    /\ delivered' = << >>
    /\ UNCHANGED << pc, rx, resp, n, bytesToRead, i, pureVars, proc, StreamPaused, sent >>

\* part_002:231-242   the goroutine up to its loop
ReaderStart ==
    /\ rpc = "start"
    /\ proc = "running"
    /\ IF ~AllRegistered(call.args[1])
       THEN rpc' = "done" /\ buf' = buf
       ELSE rpc' = Loop /\ buf' = Zeros(BufLength(call.args[1]))
    /\ UNCHANGED << pc, call, ret, wire, wcalls, queryVars, pureVars, proc,
                    bytesRead, out, delivered, StreamPaused, sent >>

\* part_002:267-315   the accumulated buffer b is decoded; the goroutine
\* then blocks on out <- result, or the process ends
Process(b) ==
    LET d == Decode(b, call.args[1])
    IN /\ result' = IF d.kind = "deliver" THEN d.result ELSE result
       /\ rpc' = IF d.kind = "deliver" THEN "send" ELSE rpc
       /\ proc' = IF d.kind = "deliver" THEN proc ELSE d.kind

\* part_002:246-254   the select: the pause case when a signal is pending,
\* else the default case, which starts a frame
ReaderSelect ==
    /\ rpc = "select"
    /\ proc = "running"
    /\ IF StreamPaused > 0
       THEN /\ StreamPaused' = StreamPaused - 1
            /\ \E o \in Write(constants_PauseResumeStream, << 0 >>) :
                /\ wire' = wire \o o.acc
                /\ wcalls' = Append(wcalls,
                                    WriteRec(constants_PauseResumeStream, << 0 >>, o))
            /\ out' = Close(out)
            /\ rpc' = "done"
            /\ UNCHANGED << bytesRead, result, proc >>
       ELSE /\ bytesRead' = 0
            /\ IF 0 < Len(buf)
               THEN rpc' = "read" /\ UNCHANGED << result, proc >>
               ELSE Process(buf)
            /\ UNCHANGED << StreamPaused, wire, wcalls, out >>
    /\ UNCHANGED << pc, call, ret, rx, resp, nreads, idleReads, n, bytesToRead, i,
                    pureVars, buf, delivered, sent >>

\* part_002:255-266   one roomba.S.Read(buf[bytesRead:]) and what follows it
ReaderRead ==
    /\ rpc = "read"
    /\ proc = "running"
    /\ nreads < MaxReads
    /\ \E r \in StreamRead(Len(buf) - bytesRead) :
        /\ buf' = CopyAt(buf, bytesRead, rx, r.n)
        /\ rx' = Drop(rx, r.n)
        /\ bytesRead' = bytesRead + r.n
        /\ nreads' = nreads + 1
        /\ idleReads' = IF r.n = 0 /\ r.err = "nil" THEN idleReads + 1 ELSE idleReads
        /\ IF r.err = "EOF" THEN rpc' = "done" /\ UNCHANGED << result, proc >>
           ELSE IF r.err = "other" THEN rpc' = Loop /\ UNCHANGED << result, proc >>
           ELSE IF bytesRead' < Len(buf) THEN rpc' = "read" /\ UNCHANGED << result, proc >>
           ELSE Process(buf')
    /\ UNCHANGED << pc, call, ret, wire, wcalls, resp, n, bytesToRead, i, pureVars,
                    out, delivered, StreamPaused, sent >>

\* the consumer receives from out: the send of part_002:315 completes
Receive ==
    /\ rpc = "send"
    /\ proc = "running"
    /\ delivered' = Append(delivered, result)
    /\ rpc' = Loop
    /\ UNCHANGED << pc, call, ret, wire, wcalls, queryVars, pureVars, proc, buf,
                    bytesRead, out, StreamPaused, sent >>

\* part_002:226-228   roomba.StreamPaused <- true, on a channel of capacity 1
PauseStream ==
    /\ proc = "running"
    /\ StreamPaused < 1
    /\ StreamPaused' = StreamPaused + 1
    /\ UNCHANGED << pc, call, ret, wire, wcalls, queryVars, pureVars, rpc, proc,
                    buf, bytesRead, out, delivered, sent >>

\* the device, which got the whole stream request for registered codes,
\* sends a frame
DeviceSend(base) ==
    /\ call.op = "Stream"
    /\ proc = "running"
    /\ ~wcalls[1].err
    /\ AllRegistered(call.args[1])
    /\ sent < MaxFrames
    /\ rx = << >>
    /\ \E f \in DeviceFrames(call.args[1], base) : rx' = f /\ resp' = f
    /\ sent' = sent + 1
    /\ UNCHANGED << pc, call, ret, wire, wcalls, nreads, idleReads, result, n,
                    bytesToRead, i, pureVars, rpc, proc, buf, bytesRead, out,
                    delivered, StreamPaused >>

\* the code lists streamed: empty, one code, two codes, an unregistered code
StreamLists == { << >>, << 7 >>, << 7, 19 >>, << 99 >> }

\* first payload bytes of the frames
StreamBases == { 64 }

NextStream ==
    \/ \E packetIds \in StreamLists : StreamCall(packetIds)
    \/ ReaderStart
    \/ ReaderSelect
    \/ ReaderRead
    \/ Receive
    \/ PauseStream
    \/ \E base \in StreamBases : DeviceSend(base)
    \/ Reset

SpecStream == Init /\ [][NextStream]_vars

\* the goroutine is scheduled whenever it can take a step; nothing makes the
\* consumer receive, the caller pause or the device send
SpecStreamFair ==
    /\ SpecStream
    /\ WF_vars(ReaderStart)
    /\ WF_vars(ReaderSelect)
    /\ WF_vars(ReaderRead)

(***************************************************************************)
(* The frame buffer sized for lists of registered codes.                   *)
(***************************************************************************)
AllocCodes == { 7, 0, 6 }

AllocLists == UNION { [1..k -> AllocCodes] : k \in 0..MaxAllocCodes }

\* part_002:231-242   the buffer length ReadStream computes for a list
Allocate ==
    /\ \E packetIds \in AllocLists :
         alloc' = [packetIds |-> packetIds, length |-> BufLength(packetIds)]
    /\ UNCHANGED << pc, call, ret, wire, wcalls, queryVars, streamVars, lookup, packed >>

NextFrame == Allocate

SpecFrame == Init /\ [][NextFrame]_vars

(***************************************************************************)
(* The value encoder applied to argument lists.                            *)
(***************************************************************************)
PackValues ==
    { [t |-> "int8", v |-> v] : v \in { -128, 127 } } \cup
    { [t |-> "uint8", v |-> v] : v \in { 0, 255 } } \cup
    { [t |-> "int16", v |-> v] : v \in { -32768, -500, -1, 2000, 32767 } } \cup
    { [t |-> "uint16", v |-> v] : v \in { 1000, 65535 } }

PackInputs == UNION { [1..k -> PackValues] : k \in 0..MaxPackLen }

PackApply ==
    /\ \E data \in PackInputs : packed' = [data |-> data, out |-> Pack(data)]
    /\ UNCHANGED << pc, call, ret, wire, wcalls, queryVars, streamVars, lookup, alloc >>

NextPack == PackApply

SpecPack == Init /\ [][NextPack]_vars

(***************************************************************************)
(* The registry looked up with every SensorCode (a byte).                  *)
(***************************************************************************)
Lookup ==
    /\ \E packetId \in 0..255 :
         lookup' = [packetId |-> packetId,
                    length |-> LookupLength(packetId).length,
                    ok |-> LookupLength(packetId).ok]
    /\ UNCHANGED << pc, call, ret, wire, wcalls, queryVars, streamVars, packed, alloc >>

NextRegistry == Lookup

SpecRegistry == Init /\ [][NextRegistry]_vars

(***************************************************************************)
(* Properties.                                                             *)
(***************************************************************************)
\* every transport write of the call returned the full count and no error
TransportOk ==
    \A k \in 1..Len(wcalls) : \A j \in 1..Len(wcalls[k].log) :
        /\ wcalls[k].log[j].n = Len(wcalls[k].log[j].buf)
        /\ ~wcalls[k].log[j].err

\* the signed 16-bit value of a high and a low byte
Decode16(hi, lo) ==
    IF hi * 256 + lo >= 32768 THEN hi * 256 + lo - 65536 ELSE hi * 256 + lo

\* C1: Drive with velocity outside [-500, 500] or radius outside
\* [-2000, 2000], and DirectDrive with a wheel velocity outside [-500, 500],
\* return an error, make no transport write and put no byte on the transport.
C1_InvalidArgumentWritesNothing ==
    ( \/ /\ call.op = "Drive"
         /\ (call.args[1] \notin -500..500 \/ call.args[2] \notin -2000..2000)
      \/ /\ call.op = "DirectDrive"
         /\ (call.args[1] \notin -500..500 \/ call.args[2] \notin -500..500) )
    => (ret.err /\ wire = << >> /\ wcalls = << >>)

C1_Witness ==
    /\ call = [op |-> "Drive", args |-> << 501, 0 >>]
    /\ ret.err
    /\ wire = << >>

\* C2: a Drive(velocity, radius) with velocity in [-500, 500] and radius in
\* [-2000, 2000] that returns no error has put exactly five bytes on the
\* transport: 137, then velocity and radius, each as a big-endian
\* two's-complement 16-bit value; Drive(200, -100) gives 137 0 200 255 156.
C2_DriveWireBytes ==
    ( /\ call.op = "Drive"
      /\ call.args[1] \in -500..500
      /\ call.args[2] \in -2000..2000
      /\ ~ret.err )
    => /\ Len(wire) = 5
       /\ wire[1] = 137
       /\ \A k \in 2..5 : wire[k] \in 0..255
       /\ Decode16(wire[2], wire[3]) = call.args[1]
       /\ Decode16(wire[4], wire[5]) = call.args[2]
       /\ (call.args = << 200, -100 >> => wire = << 137, 0, 200, 255, 156 >>)

C2_Witness ==
    /\ call = [op |-> "Drive", args |-> << 200, -100 >>]
    /\ ~ret.err
    /\ wire = << 137, 0, 200, 255, 156 >>

\* C3: Drive with velocity in [-500, 500] and a sentinel radius (32767,
\* -32768, 1 or -1) is not rejected: on a transport whose writes succeed it
\* returns no error and writes 137, the velocity and the sentinel radius.
C3_SentinelRadiusPassesThrough ==
    ( /\ call.op = "Drive"
      /\ call.args[1] \in -500..500
      /\ call.args[2] \in { 32767, -32768, 1, -1 }
      /\ TransportOk )
    => /\ ~ret.err
       /\ Len(wire) = 5
       /\ wire[1] = 137
       /\ Decode16(wire[2], wire[3]) = call.args[1]
       /\ Decode16(wire[4], wire[5]) = call.args[2]

\* C4: every Write(opcode, p) first writes the op code byte; if that write
\* returns an error or a count other than 1, Write fails and makes no further
\* transport write; otherwise it writes p once and fails exactly when that
\* write returns an error or a count other than len(p).  No write is repeated.
C4_WriteOpcodeThenPayload ==
    \A k \in 1..Len(wcalls) :
        LET w == wcalls[k] IN
        /\ Len(w.log) \in {1, 2}
        /\ w.log[1].buf = << w.opcode >>
        /\ IF w.log[1].n # 1 \/ w.log[1].err
           THEN Len(w.log) = 1 /\ w.err
           ELSE /\ Len(w.log) = 2
                /\ w.log[2].buf = w.p
                /\ w.err <=> (w.log[2].n # Len(w.p) \/ w.log[2].err)

C4_Witness ==
    /\ call.op = "Drive"
    /\ Len(wcalls) = 1
    /\ Len(wcalls[1].log) = 2
    /\ wcalls[1].log[2].n = 3
    /\ ~wcalls[1].log[2].err
    /\ ret.err
    /\ Len(wire) = 4

\* the op code each single op code command stands for
CommandOpCode ==
    [Start |-> 128, Passive |-> 128, Control |-> 130, Safe |-> 131,
     Full |-> 132, Spot |-> 134, Clean |-> 135, SeekDock |-> 143]

\* C5: each of Start, Passive, Safe, Full, Control, Clean, Spot and SeekDock,
\* on a transport whose writes succeed, puts exactly one byte on the
\* transport, the op code of the command.
C5_SingleOpCodeByte ==
    (call.op \in DOMAIN CommandOpCode /\ TransportOk)
    => wire = << CommandOpCode[call.op] >>

\* the offset of element k of an argument list in its packed form
RECURSIVE PackedOffset(_, _)
PackedOffset(data, k) ==
    IF k = 1 THEN 0
    ELSE PackedOffset(data, k - 1)
         + (IF data[k - 1].t \in {"int16", "uint16"} THEN 2 ELSE 1)

\* the value of type t read big-endian at offset off of bytes
ReadBigEndian(bytes, off, t) ==
    CASE t = "uint8" -> bytes[off + 1]
      [] t = "int8" -> IF bytes[off + 1] >= 128 THEN bytes[off + 1] - 256 ELSE bytes[off + 1]
      [] t = "uint16" -> bytes[off + 1] * 256 + bytes[off + 2]
      [] t = "int16" -> Decode16(bytes[off + 1], bytes[off + 2])

\* C6: Pack returns the big-endian bytes of its values one after the other
\* in input order: the output holds only bytes, its length is the sum of the
\* widths, and reading each value back big-endian at the offset given by the
\* widths before it yields the value; Pack([int16(-500), int16(2000)]) is
\* FE 0C 07 D0.
C6_PackBigEndianConcat ==
    LET data == packed.data
        bytes == packed.out
    IN /\ Len(bytes) = PackedOffset(data, Len(data) + 1)
       /\ \A k \in 1..Len(bytes) : bytes[k] \in 0..255
       /\ \A k \in 1..Len(data) :
            ReadBigEndian(bytes, PackedOffset(data, k), data[k].t) = data[k].v
       /\ (data = << [t |-> "int16", v |-> -500], [t |-> "int16", v |-> 2000] >>
             => bytes = << 254, 12, 7, 208 >>)

C6_Witness ==
    /\ packed.data = << [t |-> "int16", v |-> -500], [t |-> "int16", v |-> 2000] >>
    /\ packed.out = << 254, 12, 7, 208 >>

\* C7 as stated: every code the registry accepts has a length of 1 or 2.
C7_AllLengthsOneOrTwo == lookup.ok => lookup.length \in {1, 2}

\* the lengths of the group packets 0..6
GroupPacketLength == << 26, 10, 6, 10, 14, 12, 52 >>

\* C7 amended: every code the registry accepts has a length of 1 or 2,
\* except the group packets 0..6, whose lengths are 26, 10, 6, 10, 14, 12
\* and 52.
C7_LengthsOneOrTwoExceptGroups ==
    lookup.ok =>
        IF lookup.packetId \in 0..6
        THEN lookup.length = GroupPacketLength[lookup.packetId + 1]
        ELSE lookup.length \in {1, 2}

C7_Witness ==
    /\ lookup.ok
    /\ lookup.packetId = 19
    /\ lookup.length = 2

\* C8: Sensors with an unregistered code, and QueryList with an unregistered
\* code at any position of its list, return an error at once, having made no
\* transport write, put no byte on the transport and made no transport read.
C8_UnknownCodeNoIO ==
    ( \/ /\ call.op = "Sensors"
         /\ call.args[1] \notin DOMAIN SENSOR_PACKET_LENGTH
      \/ /\ call.op = "QueryList"
         /\ \E k \in 1..Len(call.args[1]) :
              call.args[1][k] \notin DOMAIN SENSOR_PACKET_LENGTH )
    => /\ pc = "idle"
       /\ ret.err
       /\ wcalls = << >>
       /\ wire = << >>
       /\ nreads = 0
       /\ rx = << >>

C8_Witness ==
    /\ call = [op |-> "QueryList", args |-> << << 7, 99 >> >>]
    /\ pc = "idle"
    /\ ret.err
    /\ wire = << >>
    /\ nreads = 0

\* C9: Sensors(code) for a registered code whose request was written whole
\* and whose reads all succeed returns exactly the first lengthOf(code)
\* bytes the transport delivered, in order, however the transport splits
\* them across reads of at least one byte each.
C9_SensorsReturnsResponse ==
    ( /\ call.op = "Sensors"
      /\ pc = "idle"
      /\ call.args[1] \in DOMAIN SENSOR_PACKET_LENGTH
      /\ TransportOk
      /\ idleReads = 0
      /\ ~ret.err )
    => ret.data = SubSeq(resp, 1, SENSOR_PACKET_LENGTH[call.args[1]])

\* the bytes of resp that belong to entry k of a code list
RECURSIVE EntryOffset(_, _)
EntryOffset(packetIds, k) ==
    IF k = 1 THEN 0
    ELSE EntryOffset(packetIds, k - 1) + SENSOR_PACKET_LENGTH[packetIds[k - 1]]

EntryBytes(packetIds, k) ==
    SubSeq(resp, EntryOffset(packetIds, k) + 1,
           EntryOffset(packetIds, k) + SENSOR_PACKET_LENGTH[packetIds[k]])

\* C10: QueryList(codes) with all codes registered, on a transport whose
\* writes succeed, writes 149, len(codes) and the codes in order and, when
\* no read fails, returns len(codes) buffers, buffer k holding exactly the
\* response bytes of codes[k], however the transport splits the response
\* across reads (reads of no byte included).
C10_QueryListReturnsAligned ==
    ( /\ call.op = "QueryList"
      /\ pc = "idle"
      /\ \A k \in 1..Len(call.args[1]) : call.args[1][k] \in DOMAIN SENSOR_PACKET_LENGTH
      /\ TransportOk )
    => /\ wire = << 149, Len(call.args[1]) >> \o call.args[1]
       /\ ~ret.err =>
            /\ Len(ret.data) = Len(call.args[1])
            /\ \A k \in 1..Len(call.args[1]) :
                 ret.data[k] = EntryBytes(call.args[1], k)

\* a query that got past its registry check has returned an error: one of
\* its reads failed (the error of the request write is dropped)
ReadErrorReturned == pc = "idle" /\ wcalls # << >> /\ ret.err

\* C11: when a transport read fails during a query, the call returns at once
\* with an error and the data gathered so far.  Sensors returns its buffer of
\* lengthOf(code) bytes as filled up to the failed read.  QueryList returns
\* one buffer per code: the buffers of the entries before the failing one with
\* their full lengths and as they were when their entry was finished, the
\* buffer of the failing entry, and no buffer for the later entries, for which
\* no read was made.
C11_ReadErrorReturnsGathered ==
    /\ []( /\ (call.op = "Sensors" /\ ReadErrorReturned) =>
                /\ ret.data = result
                /\ Len(ret.data) = SENSOR_PACKET_LENGTH[call.args[1]]
           /\ (call.op = "QueryList" /\ ReadErrorReturned) =>
                /\ ret.data = result
                /\ Len(ret.data) = Len(call.args[1])
                /\ \A k \in 1..Len(call.args[1]) :
                     IF k <= i
                     THEN Len(ret.data[k]) = SENSOR_PACKET_LENGTH[call.args[1][k]]
                     ELSE ret.data[k] = << >> )
    /\ [][ pc = "QueryList" =>
             /\ \A k \in 1..(i - 1) : result'[k] = result[k]
             /\ ret'.err => (pc' = "idle" /\ nreads' = nreads + 1) ]_vars

C11_Witness ==
    /\ call = [op |-> "QueryList", args |-> << << 7, 19 >> >>]
    /\ ReadErrorReturned
    /\ i = 2
    /\ nreads = 2
    /\ ret.data = << << 17 >>, << 18, 0 >> >>

\* C17: when the request write of Sensors or QueryList fails (an error or a
\* short count on the op code or the payload), the call makes no transport
\* read and what it returns is an error.
C17_RequestWriteFailureSurfaced ==
    ( /\ call.op \in {"Sensors", "QueryList"}
      /\ wcalls # << >>
      /\ ~TransportOk )
    => (nreads = 0 /\ (pc = "idle" => ret.err))

\* the first Write invocation of a Stream call: its stream-start request
StreamRequest == wcalls[1]

\* C12: Stream(codes) invokes Write with op code 148 and the payload
\* len(codes), codes... in caller order, and a write that succeeds has put
\* exactly these bytes on the wire.  If the write fails, Stream returns the
\* error, there is no channel, the reader is never started and no transport
\* read is ever made; the channel and the reader exist only after a
\* successful write.
C12_StreamStartsReaderAfterWrite ==
    call.op = "Stream" =>
        LET codes == call.args[1]
        IN /\ StreamRequest.opcode = 148
           /\ StreamRequest.p = << Len(codes) >> \o codes
           /\ ret.err = StreamRequest.err
           /\ StreamRequest.err =>
                /\ out = "none"
                /\ rpc = "none"
                /\ nreads = 0
                /\ delivered = << >>
           /\ ~StreamRequest.err =>
                /\ Take(wire, Len(codes) + 2) = << 148, Len(codes) >> \o codes
                /\ out # "none"
                /\ rpc # "none"

C12_Witness ==
    /\ call = [op |-> "Stream", args |-> << << 7, 19 >> >>]
    /\ wire = << 148, 2, 7 >>
    /\ ret.err
    /\ rpc = "none"
    /\ out = "none"

\* the reader has decoded a fully accumulated buffer: it is blocked sending
\* the result, or the process has ended in the decoding
Processed == rpc = "send" \/ proc # "running"

\* the decoded buffer's result is being delivered on the output channel
Delivering == rpc = "send" /\ proc = "running"

\* position in the frame of the identifier of entry k of a code list
RECURSIVE IdPos(_, _)
IdPos(codes, k) ==
    IF k = 1 THEN 3
    ELSE IdPos(codes, k - 1) + 1 + SENSOR_PACKET_LENGTH[codes[k - 1]]

\* header 19, length byte frameLength - 3, one entry per session code
WellFormed(b, codes) ==
    /\ Len(b) = TotalLength(codes) + Len(codes) + 3
    /\ b[1] = 19
    /\ b[2] = Len(b) - 3
    /\ \A k \in 1..Len(codes) : b[IdPos(codes, k)] = codes[k]

\* sum mod 256 of the bytes from the length byte through the checksum byte
FrameSum(b) == SumBytes(Tail(b)) % 256

\* the payload positions of a frame of the code list
PayloadPositions(codes) ==
    { q \in 3..(TotalLength(codes) + Len(codes) + 2) :
        \A k \in 1..Len(codes) : q # IdPos(codes, k) }

\* C13: a fully accumulated frame with header 19, length byte
\* frameLength - 3 and entries matching the session's codes is delivered if
\* and only if its bytes from the length byte through the checksum sum to 0
\* mod 256; the session's frame with one payload bit flipped and the old
\* checksum is never delivered.
C13_DeliveredIffChecksum ==
    (call.op = "Stream" /\ Processed) =>
        LET codes == call.args[1]
        IN /\ WellFormed(buf, codes) => (Delivering <=> FrameSum(buf) = 0)
           /\ (\E base \in StreamBases, q \in PayloadPositions(codes) :
                 buf = FlipBit(ValidFrame(codes, base), q)) => ~Delivering

\* a decoded frame fails the header, the length or the checksum validation
IntegrityFailure(b) ==
    \/ b[1] # 19
    \/ b[2] # Len(b) - 3
    \/ FrameSum(b) # 0

\* C14: a frame that fails header, length or checksum validation ends only
\* its session: the reader has stopped, the output channel is closed, and
\* the host process keeps running.
C14_IntegrityFailureEndsSessionOnly ==
    (call.op = "Stream" /\ Processed /\ Len(buf) >= 3 /\ IntegrityFailure(buf)) =>
        /\ proc = "running"
        /\ rpc = "done"
        /\ out = "closed"

\* number of Write invocations of the pause command made so far
PauseWrites(w) == Cardinality({ k \in 1..Len(w) : w[k].opcode = 150 })

\* the reader is at its select with a pause signal pending and moves on
TakesPauseBranch == rpc = "select" /\ StreamPaused > 0 /\ rpc' # rpc

\* C15: a reader that finds a pause signal makes, in that step, one Write of
\* the pause command 150 with payload 0 (the bytes 150, 0 on the wire when
\* the write succeeds), closes the output channel and exits; a session writes
\* the pause command at most once, and exactly once when its channel is
\* closed; once the channel is closed nothing more is delivered on it and
\* no further transport read is made.
C15_PauseWrittenOnceThenClosed ==
    /\ []( call.op = "Stream" =>
             /\ PauseWrites(wcalls) <= 1
             /\ (PauseWrites(wcalls) = 1) <=> (out = "closed")
             /\ out = "closed" =>
                  /\ rpc = "done"
                  /\ wcalls[2].opcode = 150 /\ wcalls[2].p = << 0 >>
                  /\ ~wcalls[2].err =>
                       SubSeq(wire, Len(wire) - 1, Len(wire)) = << 150, 0 >> )
    /\ [][ /\ TakesPauseBranch =>
                /\ PauseWrites(wcalls') = PauseWrites(wcalls) + 1
                /\ out' = "closed"
                /\ rpc' = "done"
           /\ (out = "closed" /\ out' = "closed") =>
                /\ delivered' = delivered
                /\ nreads' = nreads
                /\ wcalls' = wcalls ]_vars

C15_Witness ==
    /\ call = [op |-> "Stream", args |-> << << 7, 19 >> >>]
    /\ delivered = << << << 65 >>, << 66, 67 >> >> >>
    /\ out = "closed"
    /\ rpc = "done"
    /\ wire = << 148, 2, 7, 19, 150, 0 >>

\* C16: whenever the reader has taken the pause branch, no frame is partly
\* accumulated: the bytes accumulated are none, or a whole frame that has
\* been processed; never some but not all bytes of a frame, also after a
\* read error in the middle of a frame.
C16_PauseOnlyAtFrameBoundary ==
    (call.op = "Stream" /\ out = "closed") => bytesRead \in { 0, Len(buf) }

\* C18: for every list of registered codes the frame buffer has
\* sum of lengthOf(code) + number of codes + 3 bytes and the expected
\* length byte is that number minus 3, also when the sum is above 255.
C18_FrameLengthNeverWraps ==
    LET codes == alloc.packetIds
        frameLength == TotalLength(codes) + Len(codes) + 3
    IN /\ alloc.length = frameLength
       /\ ExpectedLength(Zeros(alloc.length)) = frameLength - 3

\* C19: when a read of the stream reader has failed with an error other than
\* end-of-stream after 0 < k < frame length bytes were accumulated, the
\* reader goes on reading at the same position: the count stays k and the k
\* bytes stay where they are.
C19_RetryKeepsPosition ==
    [][ ( /\ rpc = "select" /\ rpc' = "read"
          /\ 0 < bytesRead /\ bytesRead < Len(buf) )
        => (bytesRead' = bytesRead /\ buf' = buf) ]_vars

\* C20: a result being delivered is aligned with the session's code list:
\* it has len(codes) entries, and entry k has lengthOf(codes[k]) bytes, which
\* are the bytes that followed the identifier codes[k] in the frame.
C20_DeliveredAlignedWithCodes ==
    (call.op = "Stream" /\ Delivering) =>
        LET codes == call.args[1]
        IN /\ Len(result) = Len(codes)
           /\ \A k \in 1..Len(codes) :
                /\ Len(result[k]) = SENSOR_PACKET_LENGTH[codes[k]]
                /\ buf[IdPos(codes, k)] = codes[k]
                /\ result[k] = SubSeq(buf, IdPos(codes, k) + 1,
                                      IdPos(codes, k) + SENSOR_PACKET_LENGTH[codes[k]])

\* C21: Stream(codes) with an unregistered code among the codes is rejected
\* before any I/O: nothing is written to the transport, the caller gets an
\* error and no output channel.
C21_UnregisteredStreamRejected ==
    (call.op = "Stream" /\ ~AllRegistered(call.args[1])) =>
        /\ wire = << >>
        /\ wcalls = << >>
        /\ ret.err
        /\ out = "none"

\* C22: whenever the stream reader has terminated, whether by a pause, by an
\* end-of-stream read or by an unregistered code in its list, the session's
\* output channel is closed.
C22_ReaderExitClosesChannel ==
    (call.op = "Stream" /\ rpc = "done") => out = "closed"

\* the reader is blocked sending a result while a pause signal is pending
BlockedWithPausePending == Delivering /\ StreamPaused > 0

\* C23: a reader with a pause pending does not stay blocked on delivering a
\* frame: whether or not the consumer goes on receiving, it eventually
\* writes the pause command and closes the output channel.
C23_PauseEventuallyObserved ==
    (call.op = "Stream" /\ BlockedWithPausePending) ~> (out = "closed")

\* C24: decoding a fully accumulated frame that passed the header and
\* length checks never indexes the result array outside its len(codes)
\* entries, for every code list, the empty one too, and every frame content:
\* the reader does not crash.
C24_DecodeStaysInBounds ==
    (call.op = "Stream" /\ Len(buf) >= 2 /\ buf[1] = 19 /\ buf[2] = ExpectedLength(buf))
        => proc # "panic"

\* no stream reader is running
NoReader == rpc \in { "none", "done" }

\* C25: the pause channel holds at most one signal.  PauseStream called
\* while no reader is running leaves one signal pending; a pending signal
\* stays through the next Stream call and leaves the channel only in the
\* pause branch of a reader, which ends that reader's session; and the next
\* session started on registered codes with a signal pending reaches its
\* select with the signal still there and, at that first iteration, writes
\* the pause command 150, 0, closes its channel and exits, having made no
\* read and delivered no frame.
C25_PendingPauseEndsNextSession ==
    /\ [](StreamPaused \in 0..1)
    /\ [][ /\ (StreamPaused' > StreamPaused /\ NoReader) =>
                (StreamPaused' = 1 /\ rpc' = rpc /\ out' = out)
           /\ (StreamPaused' < StreamPaused /\ call' # NoCall) =>
                /\ rpc = "select" /\ rpc' = "done"
                /\ out' = "closed"
                /\ PauseWrites(wcalls') = PauseWrites(wcalls) + 1
           /\ (StreamPaused > 0 /\ NoReader /\ rpc' = "start") =>
                StreamPaused' = StreamPaused
           /\ ( /\ rpc = "start" /\ StreamPaused > 0
                /\ AllRegistered(call.args[1]) /\ rpc' # rpc ) =>
                /\ rpc' = "select"
                /\ StreamPaused' > 0
                /\ nreads' = 0
                /\ delivered' = << >>
           /\ ( /\ rpc = "select" /\ StreamPaused > 0
                /\ nreads = 0 /\ delivered = << >> /\ rpc' # rpc ) =>
                /\ rpc' = "done"
                /\ out' = "closed"
                /\ nreads' = 0
                /\ delivered' = << >>
                /\ wcalls'[2].opcode = 150 /\ wcalls'[2].p = << 0 >>
                /\ ~wcalls'[2].err =>
                     SubSeq(wire', Len(wire') - 1, Len(wire')) = << 150, 0 >> ]_vars

\* a session that followed one in which the device's frame was read: it
\* found the signal, read nothing and delivered nothing
C25_Witness ==
    /\ call = [op |-> "Stream", args |-> << << 7 >> >>]
    /\ sent = 1 /\ rx = << >> /\ nreads = 0
    /\ StreamPaused = 0
    /\ out = "closed"
    /\ rpc = "done"
    /\ delivered = << >>
    /\ wire = << 148, 1, 7, 150, 0 >>

====
